---- MODULE Spec2Model ----
(***************************************************************************)
(* Model of the viewport-driven fetch coordination of rare-birds           *)
(* (client/src/components/BirdMap.jsx): the fetch gate, the radius         *)
(* estimate, the two sequential network calls of a fetch cycle, the        *)
(* grouping of the observations and the photo join; and of the fetch       *)
(* cycle of the variant with the update button (unnamed/part_000).         *)
(*                                                                         *)
(* Units.  Coordinates are integers in 1e-5 degree (36.9741 is 3697410).   *)
(* Distances are integers in metres.  'dist' of a query is in tenths of a  *)
(* kilometre, as radius.toFixed(1) prints it.                              *)
(*                                                                         *)
(* React.  A state setter followed by the render and the effects of that   *)
(* render is one step: the effect reads the state of the render it belongs *)
(* to.  An activation of the async function fetchBirdData is an element of *)
(* 'cycles': it keeps the values its closure captured (they do not follow  *)
(* later renders) and its position (which await it is suspended at).       *)
(***************************************************************************)
EXTENDS Integers, Sequences, FiniteSets, TLC

VARIABLES
    mounted,            \* the mount effects of BirdMap have run
    mapCenter,          \* useState mapCenter
    lastFetchLocation,  \* useState lastFetchLocation (NULL or [lat, lng])
    lastFetchParams,    \* useState lastFetchParams (NULL or [daysBack, sightingType])
    birdSightings,      \* useState birdSightings: the published clusters
    loading,            \* useState loading
    mapRef,             \* useState mapRef: TRUE once the map instance is set
    sightingType,       \* useState sightingType
    daysBack,           \* useState daysBack
    cycles,             \* activations of fetchBirdData suspended at an await
    alert,              \* the alert() raised by the last step, or NoAlert
    console,            \* what the last step wrote to the console, or << >>
    published,          \* TRUE when the last step called setBirdSightings
    lastQueriedPosition,\* part_000: useState lastQueriedPosition (NULL or [lat, lng])
    showUpdateButton,   \* part_000: useState showUpdateButton
    activations         \* part_000: activations of fetchBirdData suspended at an await

\* the state part_000 has and BirdMap.jsx has not
variantVars == <<lastQueriedPosition, showUpdateButton, activations>>

\* the state BirdMap.jsx has and the fetch cycle of part_000 does not use
gateVars == <<lastFetchLocation, lastFetchParams, mapRef, sightingType, daysBack, cycles>>

vars == <<mounted, mapCenter, lastFetchLocation, lastFetchParams, birdSightings,
          loading, mapRef, sightingType, daysBack, cycles, alert, console, published,
          lastQueriedPosition, showUpdateButton, activations>>

----------------------------------------------------------------------------
(* Bounds of the model *)

\* how many of the sample viewport centers the map can settle on
NumCenters == 3
\* how many of the sample response bodies the observation source can return
NumBodies == 2
\* cap on the activations of fetchBirdData suspended at the same time
MaxCycles == 2
\* the longest array of records the response specification lets the
\* observation source return
MaxObservations == 3

----------------------------------------------------------------------------
(* Values *)

NULL == [null |-> TRUE]

NoAlert == ""
FetchErrorAlert == "Error fetching bird sightings"

\* console.log / console.error lines of fetchBirdData (the two coordinate
\* lines of handleMoveEnd are left out)
SkipLog == << "Skipping fetch" >>
PhotoErrorLog == << "Error fetching species photos:" >>
DataErrorLog(error) == << "Error fetching bird data:", error >>

Abs(x) == IF x < 0 THEN 0 - x ELSE x
Min(a, b) == IF a <= b THEN a ELSE b
Max(a, b) == IF a >= b THEN a ELSE b

\* useState({ lat: 36.9741, lng: -122.0308 })
InitialCenter == [lat |-> 3697410, lng |-> 0 - 12203080]

\* Centers the map can settle on (arguments of the moveend event).
\*   1: the initial center
\*   2: 3000 m from the initial center; its 4-decimal rounding is 2996 m from it
\*   3: 1 km east of the initial center and 2 km from center 2
\*   4: about 5 km north-east of the initial center
CenterList ==
    << InitialCenter,
       [lat |-> 3697542, lng |-> 0 - 12199706],
       [lat |-> 3697410, lng |-> 0 - 12201951],
       [lat |-> 3701410, lng |-> 0 - 12200580] >>

Centers == { CenterList[i] : i \in 1..Min(NumCenters, Len(CenterList)) }

\* Half extents of the visible bounds around the center (map.getBounds()):
\* a zoom-12 landscape view, a tall view, and a view wider than 50 km.
Extents ==
    { [lat |-> 4000, lng |-> 10000],
      [lat |-> 9000, lng |-> 5000],
      [lat |-> 30000, lng |-> 40000] }

\* <option> values of the two selects
SightingTypes == {"recent", "rare"}
DaysBackOptions == {"7", "14"}

----------------------------------------------------------------------------
(* calculateDistance: the haversine distance, in fixed point *)

\* R * PI / 180 * 1e-5 degree, the metres per coordinate unit, is 1.11195
\* (R = 6371 km): its excess over 1, times 1e5.
MetresPerUnitExcessE5 == 11195

\* Math.cos(lat * Math.PI / 180) * 1e4 for the latitudes of the model:
\* 7989 at the initial center, falling by 105 per degree.
CosAtInitialE4 == 7989
CosSlopePerDegree == 105
CosE4(lat) == CosAtInitialE4 - ((lat - InitialCenter.lat) * CosSlopePerDegree) \div 100000

\* floor of the square root (Math.sqrt), by bisection on [lo, hi]
RECURSIVE SqrtBetween(_, _, _)
SqrtBetween(n, lo, hi) ==
    IF lo >= hi THEN lo
    ELSE LET mid == (lo + hi + 1) \div 2
         IN  IF mid * mid <= n THEN SqrtBetween(n, mid, hi)
                               ELSE SqrtBetween(n, lo, mid - 1)

Sqrt(n) == SqrtBetween(n, 0, 46340)

\* sqrt(a*a + b*b) without squaring when one leg is 0
Hypot(a, b) ==
    IF a = 0 THEN b
    ELSE IF b = 0 THEN a
    ELSE Sqrt(a * a + b * b)

\* R * c of the haversine formula, in metres.  For the distances of the model
\* (below 100 km) c = 2*atan2(sqrt(a), sqrt(1-a)) is sqrt(dLat^2 +
\* cos(lat1)*cos(lat2)*dLon^2) to well below a metre; cos(lat1)*cos(lat2) is
\* taken as the square of the cosine of the middle latitude.
calculateDistance(lat1, lon1, lat2, lon2) ==
    LET dLat == Abs(lat2 - lat1)
        dLon == Abs(lon2 - lon1)
        x    == (dLon * CosE4((lat1 + lat2) \div 2)) \div 10000
        c    == Hypot(dLat, x)
    IN  c + (c * MetresPerUnitExcessE5) \div 100000

----------------------------------------------------------------------------
(* Number formatting *)

\* Number(v.toFixed(4)) of a coordinate: the nearest multiple of 1e-4 degree
\* (10 units), a tie going away from zero.
ToFixed4(v) ==
    LET n == ((Abs(v) + 5) \div 10) * 10
    IN  IF v < 0 THEN 0 - n ELSE n

\* radius.toFixed(1) of a radius in metres: tenths of a kilometre, a tie going up
ToFixed1(radius) == (radius + 50) \div 100

----------------------------------------------------------------------------
(* The fetch gate of fetchBirdData *)

\* if (distance < 3) return
MinMoveMetres == 3000

\* Mutant of ParamsChanged: the parameters of the last fetch are not compared.
ParamsChangedOnFirstLoadOnly(lfp, db, st) == lfp = NULL

\* const paramsChanged = !lastFetchParams || ...
ParamsChanged(lfp, db, st) ==
    \/ lfp = NULL
    \/ lfp.daysBack # db
    \/ lfp.sightingType # st

\* Mutant of ShouldFetch: the distance rule is dropped.
ShouldFetchWithoutDistanceRule(lfl, lfp, mc, db, st) == TRUE

\* Mutant of ShouldFetch: 'distance <= 3' for 'distance < 3'.
ShouldFetchBeyondThreshold(lfl, lfp, mc, db, st) ==
    IF ~ParamsChanged(lfp, db, st) /\ lfl # NULL
    THEN ~(calculateDistance(lfl.lat, lfl.lng, mc.lat, mc.lng) <= MinMoveMetres)
    ELSE TRUE

\* Mutant of ShouldFetch: without a last fetch, the distance is measured from
\* the initial center, as if lastFetchLocation started there.
ShouldFetchFromInitialCenter(lfl, lfp, mc, db, st) ==
    LET from == IF lfl = NULL THEN InitialCenter ELSE lfl
    IN  IF lfp = NULL \/ ~ParamsChanged(lfp, db, st)
        THEN ~(calculateDistance(from.lat, from.lng, mc.lat, mc.lng) < MinMoveMetres)
        ELSE TRUE

\* Mutant of ShouldFetch: the distance is measured from the center of the
\* previous render, not from the center of the last fetch.
ShouldFetchFromPreviousCenter(lfl, lfp, mc, db, st) ==
    IF ~ParamsChanged(lfp, db, st) /\ lfl # NULL
    THEN ~(calculateDistance(mapCenter.lat, mapCenter.lng, mc.lat, mc.lng) < MinMoveMetres)
    ELSE TRUE

\* TRUE when fetchBirdData goes on to setLoading(true), FALSE when it returns
\* early ("Skipping fetch")
ShouldFetch(lfl, lfp, mc, db, st) ==
    IF ~ParamsChanged(lfp, db, st) /\ lfl # NULL
    THEN ~(calculateDistance(lfl.lat, lfl.lng, mc.lat, mc.lng) < MinMoveMetres)
    ELSE TRUE

----------------------------------------------------------------------------
(* The query radius *)

\* let radius = 25
DefaultRadius == 25000
\* Math.min(..., 25)
MaxRadius == 25000

\* bounds.getNorthEast(), bounds.getSouthWest() of a view centered on mc
NorthEast(mc, ext) == [lat |-> mc.lat + ext.lat, lng |-> mc.lng + ext.lng]
SouthWest(mc, ext) == [lat |-> mc.lat - ext.lat, lng |-> mc.lng - ext.lng]

\* Mutant of QueryRadius: the smaller of the two distances is used.
QueryRadiusOfSmallerDistance(hasMap, ne, sw) ==
    IF hasMap
    THEN LET xDistance == calculateDistance(ne.lat, ne.lng, ne.lat, sw.lng)
             yDistance == calculateDistance(ne.lat, ne.lng, sw.lat, ne.lng)
         IN  Min(Min(xDistance, yDistance) \div 2, MaxRadius)
    ELSE DefaultRadius

\* Mutant of QueryRadius: the cap Math.min(..., 25) is missing.
QueryRadiusWithoutCap(hasMap, ne, sw) ==
    IF hasMap
    THEN LET xDistance == calculateDistance(ne.lat, ne.lng, ne.lat, sw.lng)
             yDistance == calculateDistance(ne.lat, ne.lng, sw.lat, ne.lng)
         IN  Max(xDistance, yDistance) \div 2
    ELSE DefaultRadius

\* the radius of the query, in metres; hasMap is the closure's mapRef
QueryRadius(hasMap, ne, sw) ==
    IF hasMap
    THEN LET xDistance == calculateDistance(ne.lat, ne.lng, ne.lat, sw.lng)
             yDistance == calculateDistance(ne.lat, ne.lng, sw.lat, ne.lng)
         IN  Min(Max(xDistance, yDistance) \div 2, MaxRadius)
    ELSE DefaultRadius

----------------------------------------------------------------------------
(* Observations and the responses of the two sources *)

\* the text of a property an object does not have
Undefined == "undefined"

\* obj[f] of a text property
Get(obj, f) == IF f \in DOMAIN obj THEN obj[f] ELSE Undefined

\* `${obj[f]}` of a numeric property
NumberText(obj, f) == IF f \in DOMAIN obj THEN ToString(obj[f]) ELSE Undefined

\* Sample observation records of the observation source
RobinFirst ==
    [speciesCode |-> "amerob", comName |-> "Robin", sciName |-> "Turdus",
     lat |-> 3697000, lng |-> 0 - 12203000, obsDt |-> 2, obsValid |-> TRUE,
     subId |-> "S1"]
RobinAgain ==
    [speciesCode |-> "amerob", comName |-> "Robin", sciName |-> "Turdus",
     lat |-> 3697000, lng |-> 0 - 12203000, obsDt |-> 5, obsValid |-> TRUE,
     subId |-> "S2"]
WrenInvalid ==
    [speciesCode |-> "pacwre", comName |-> "Wren", sciName |-> "Troglodytes",
     lat |-> 3697000, lng |-> 0 - 12203000, obsDt |-> 4, obsValid |-> FALSE,
     subId |-> "S3"]
WrenElsewhere ==
    [speciesCode |-> "pacwre", comName |-> "Wren", sciName |-> "Troglodytes",
     lat |-> 3698000, lng |-> 0 - 12201000, obsDt |-> 3, obsValid |-> TRUE,
     subId |-> "S4"]

\* a valid observation at the location of RobinFirst, of another species
WrenHere ==
    [speciesCode |-> "pacwre", comName |-> "Wren", sciName |-> "Troglodytes",
     lat |-> 3697000, lng |-> 0 - 12203000, obsDt |-> 1, obsValid |-> TRUE,
     subId |-> "S5"]

\* a valid observation at the location of RobinFirst with its common name and
\* another scientific name
RobinOtherSciName ==
    [speciesCode |-> "amerob", comName |-> "Robin", sciName |-> "Merula",
     lat |-> 3697000, lng |-> 0 - 12203000, obsDt |-> 3, obsValid |-> TRUE,
     subId |-> "S9"]

\* Sample records with obsValid true that lack lat, lng, comName or subId,
\* and the array element null
RobinNoLat ==
    [speciesCode |-> "amerob", comName |-> "Robin", sciName |-> "Turdus",
     lng |-> 0 - 12203000, obsDt |-> 6, obsValid |-> TRUE, subId |-> "S6"]
RobinNoLng ==
    [speciesCode |-> "amerob", comName |-> "Robin", sciName |-> "Turdus",
     lat |-> 3697000, obsDt |-> 7, obsValid |-> TRUE, subId |-> "S7"]
TurdusNoName ==
    [speciesCode |-> "amerob", sciName |-> "Turdus",
     lat |-> 3697000, lng |-> 0 - 12203000, obsDt |-> 8, obsValid |-> TRUE,
     subId |-> "S8"]
RobinNoSubId ==
    [speciesCode |-> "amerob", comName |-> "Robin", sciName |-> "Turdus",
     lat |-> 3697000, lng |-> 0 - 12203000, obsDt |-> 9, obsValid |-> TRUE]
NullRecord == NULL

\* the records an array of the observation source is made of in the response
\* specification
Observations ==
    { RobinFirst, RobinAgain, WrenInvalid, WrenElsewhere, WrenHere,
      RobinOtherSciName, RobinNoLat, RobinNoLng, TurdusNoName, RobinNoSubId, NullRecord }

\* the arrays of at most MaxObservations of them
ObservationLists == UNION { [1..n -> Observations] : n \in 0..MaxObservations }

\* Sample bodies (arrays) of a successful response of /api/birds
BodyList ==
    << << RobinFirst, WrenInvalid, RobinAgain >>,
       << >>,
       << WrenElsewhere, RobinFirst >> >>

Bodies == { BodyList[i] : i \in 1..Min(NumBodies, Len(BodyList)) }

\* How the primary request can end: fetch() rejects, the status is not ok,
\* response.json() rejects, the body is JSON but no array, or an array arrives.
PrimaryOutcomes ==
    { [kind |-> k, body |-> << >>] : k \in {"reject", "notOk", "badJson", "nonArray"} }
        \cup { [kind |-> "ok", body |-> b] : b \in Bodies }

\* How the primary request can end in the response specification
ResponseOutcomes ==
    { [kind |-> k, body |-> << >>] : k \in {"reject", "notOk", "badJson", "nonArray"} }
        \cup { [kind |-> "ok", body |-> b] : b \in ObservationLists }

\* Sample species maps of the photo source
RobinPhotos ==
    [ k \in {"Turdus_Robin"} |-> [thumbnailUrl |-> "robin-thumb", imageUrl |-> "robin-full"] ]
NoPhotos == [ k \in {} |-> NULL ]

\* Sample parsed bodies of a successful response of the photo source: JSON
\* null, an object without 'species', and objects with a species map.
JsonNull == [json |-> "null"]
LookupBodies ==
    { JsonNull,
      [other |-> "x"],
      [species |-> NoPhotos],
      [species |-> RobinPhotos] }

\* How the lookup request can end
LookupOutcomes ==
    { [kind |-> k, body |-> JsonNull] : k \in {"reject", "notOk", "badJson"} }
        \cup { [kind |-> "ok", body |-> b] : b \in LookupBodies }

----------------------------------------------------------------------------
(* Grouping and the photo join of fetchBirdData *)

\* the distinct values of seq, each at its first position: the key order of
\* _.groupBy's result and the order of [...new Set(seq)]
RECURSIVE Distinct(_)
Distinct(seq) ==
    IF seq = << >> THEN << >>
    ELSE LET init == Distinct(SubSeq(seq, 1, Len(seq) - 1))
             last == seq[Len(seq)]
         IN  IF \E i \in 1..Len(init) : init[i] = last THEN init ELSE Append(init, last)

\* `${sighting.lat},${sighting.lng}`, kept as the two parts split(',') yields
LocationKey(sighting) == << NumberText(sighting, "lat"), NumberText(sighting, "lng") >>

\* `${sighting.sciName}_${sighting.comName}`
SpeciesKey(sighting) == Get(sighting, "sciName") \o "_" \o Get(sighting, "comName")

\* Mutant of ValidSightings: the filter keeps every record that has a
\* validity flag, whatever its value.
ValidSightingsOfAnyFlag(data) == SelectSeq(data, LAMBDA s : "obsValid" \in DOMAIN s)

\* data.filter(sighting => sighting.obsValid === true)
ValidSightings(data) == SelectSeq(data, LAMBDA s : "obsValid" \in DOMAIN s /\ s.obsValid = TRUE)

\* Mutant of UniqueSpecies: the keys are not passed through a Set.
UniqueSpeciesWithRepeats(validSightings) ==
    [ i \in 1..Len(validSightings) |-> SpeciesKey(validSightings[i]) ]

\* [...new Set(validSightings.map(sighting => `${sciName}_${comName}`))]
UniqueSpecies(validSightings) ==
    Distinct([ i \in 1..Len(validSightings) |-> SpeciesKey(validSightings[i]) ])

\* the elements of seq whose key is key, in the order of seq; keys[i] is the
\* key of seq[i]
RECURSIVE ItemsOfKey(_, _, _)
ItemsOfKey(seq, keys, key) ==
    IF seq = << >> THEN << >>
    ELSE LET n    == Len(seq)
             init == ItemsOfKey(SubSeq(seq, 1, n - 1), SubSeq(keys, 1, n - 1), key)
         IN  IF keys[n] = key THEN Append(init, seq[n]) ELSE init

\* Mutant of GroupBy: every element is a group of its own.
GroupByWithoutMerging(seq, keys) ==
    [ i \in 1..Len(seq) |-> [key |-> keys[i], items |-> << seq[i] >>] ]

\* Object.entries(_.groupBy(seq, iteratee)), where keys[i] is the iteratee's
\* value of seq[i]: the groups, in the order their keys first appear
GroupBy(seq, keys) ==
    LET distinct == Distinct(keys)
    IN  [ i \in 1..Len(distinct) |->
            [key |-> distinct[i], items |-> ItemsOfKey(seq, keys, distinct[i])] ]

\* Number(part) of a part of the location key that prints no number: a value
\* outside the coordinates
NaN == 0 - 999999999

\* the numbers a part of a location key of data can print
CoordinatesOf(data) ==
    UNION { { data[i][f] : i \in { j \in 1..Len(data) : f \in DOMAIN data[j] } } :
            f \in {"lat", "lng"} }

\* Number(part)
ParseNumber(part, data) ==
    IF \E v \in CoordinatesOf(data) : ToString(v) = part
    THEN CHOOSE v \in CoordinatesOf(data) : ToString(v) = part
    ELSE NaN

\* Mutant of Bird: subIds holds the submission id of the first sighting only.
BirdOfFirstSubmission(speciesSightings, speciesPhotos) ==
    LET first    == speciesSightings[1]
        baseData == [ f \in DOMAIN first \cup {"subIds"} |->
                        IF f = "subIds" THEN << Get(first, "subId") >> ELSE first[f] ]
        speciesKey == SpeciesKey(baseData)
    IN  IF speciesKey \in DOMAIN speciesPhotos
        THEN [ f \in DOMAIN baseData \cup {"thumbnailUrl", "fullPhotoUrl"} |->
                 IF f = "thumbnailUrl" THEN speciesPhotos[speciesKey].thumbnailUrl
                 ELSE IF f = "fullPhotoUrl" THEN speciesPhotos[speciesKey].imageUrl
                 ELSE baseData[f] ]
        ELSE baseData

\* Mutant of Bird: the two URLs of the map entry are attached the other way
\* round.
BirdWithSwappedPhotoUrls(speciesSightings, speciesPhotos) ==
    LET first    == speciesSightings[1]
        subIds   == [ i \in 1..Len(speciesSightings) |-> Get(speciesSightings[i], "subId") ]
        baseData == [ f \in DOMAIN first \cup {"subIds"} |->
                        IF f = "subIds" THEN subIds ELSE first[f] ]
        speciesKey == SpeciesKey(baseData)
    IN  IF speciesKey \in DOMAIN speciesPhotos
        THEN [ f \in DOMAIN baseData \cup {"thumbnailUrl", "fullPhotoUrl"} |->
                 IF f = "thumbnailUrl" THEN speciesPhotos[speciesKey].imageUrl
                 ELSE IF f = "fullPhotoUrl" THEN speciesPhotos[speciesKey].thumbnailUrl
                 ELSE baseData[f] ]
        ELSE baseData

\* one element of 'birds': the first sighting of the species with the subIds
\* of all of them, and the photo URLs when speciesPhotos has its key
Bird(speciesSightings, speciesPhotos) ==
    LET first    == speciesSightings[1]
        subIds   == [ i \in 1..Len(speciesSightings) |-> Get(speciesSightings[i], "subId") ]
        baseData == [ f \in DOMAIN first \cup {"subIds"} |->
                        IF f = "subIds" THEN subIds ELSE first[f] ]
        speciesKey == SpeciesKey(baseData)
    IN  IF speciesKey \in DOMAIN speciesPhotos
        THEN [ f \in DOMAIN baseData \cup {"thumbnailUrl", "fullPhotoUrl"} |->
                 IF f = "thumbnailUrl" THEN speciesPhotos[speciesKey].thumbnailUrl
                 ELSE IF f = "fullPhotoUrl" THEN speciesPhotos[speciesKey].imageUrl
                 ELSE baseData[f] ]
        ELSE baseData

\* processedSightings
ProcessedSightings(validSightings, speciesPhotos) ==
    LET groupedByLocation ==
            GroupBy(validSightings,
                    [ i \in 1..Len(validSightings) |-> LocationKey(validSightings[i]) ])
    IN  [ i \in 1..Len(groupedByLocation) |->
            LET sightings == groupedByLocation[i].items
                birdsBySpecies ==
                    GroupBy(sightings, [ j \in 1..Len(sightings) |-> Get(sightings[j], "comName") ])
            IN  [lat   |-> ParseNumber(groupedByLocation[i].key[1], validSightings),
                 lng   |-> ParseNumber(groupedByLocation[i].key[2], validSightings),
                 birds |-> [ j \in 1..Len(birdsBySpecies) |->
                               Bird(birdsBySpecies[j].items, speciesPhotos) ]] ]

----------------------------------------------------------------------------
(* The component BirdMap *)

\* the state after the first render, before the mount effects
Init ==
    /\ mounted = FALSE
    /\ mapCenter = InitialCenter
    /\ lastFetchLocation = NULL
    /\ lastFetchParams = NULL
    /\ birdSightings = << >>
    /\ loading = FALSE
    /\ mapRef = FALSE
    /\ sightingType = "recent"
    /\ daysBack = "7"
    /\ cycles = << >>
    /\ alert = NoAlert
    /\ console = << >>
    /\ published = FALSE
    /\ lastQueriedPosition = NULL
    /\ showUpdateButton = FALSE
    /\ activations = << >>

RemoveAt(seq, i) == SubSeq(seq, 1, i - 1) \o SubSeq(seq, i + 1, Len(seq))

\* An activation of fetchBirdData that passed the gate and awaits the primary
\* response.  mapCenter .. birdSightings are the state of the render whose
\* closure it runs in; ne, sw are the corners it read from the map (NULL
\* without a map) and radius its local of that name; lat, lng, dist, type,
\* back are the URLSearchParams of its query; data is the body of the primary
\* response and species the 'species' of the lookup request, once it is sent.
NewCycle(mc, db, st, ext) ==
    LET radius == QueryRadius(mapRef, NorthEast(mc, ext), SouthWest(mc, ext)) IN
    [pc                |-> "primary",
     mapCenter         |-> mc,
     daysBack          |-> db,
     sightingType      |-> st,
     mapRef            |-> mapRef,
     lastFetchLocation |-> lastFetchLocation,
     lastFetchParams   |-> lastFetchParams,
     birdSightings     |-> birdSightings,
     ne                |-> IF mapRef THEN NorthEast(mc, ext) ELSE NULL,
     sw                |-> IF mapRef THEN SouthWest(mc, ext) ELSE NULL,
     lat               |-> ToFixed4(mc.lat),
     lng               |-> ToFixed4(mc.lng),
     radius            |-> radius,
     dist              |-> ToFixed1(radius),
     type              |-> st,
     back              |-> db,
     data              |-> << >>,
     species           |-> << >>]

\* Mutant of fetchBirdData: setLoading(true) precedes the gate.
fetchBirdDataLoadingBeforeGate(mc, db, st) ==
    IF ShouldFetch(lastFetchLocation, lastFetchParams, mc, db, st)
    THEN \E ext \in Extents :
            /\ Len(cycles) < MaxCycles
            /\ loading' = TRUE
            /\ cycles' = Append(cycles, NewCycle(mc, db, st, ext))
            /\ console' = << >>
    ELSE /\ console' = SkipLog
         /\ loading' = TRUE
         /\ UNCHANGED cycles

\* fetchBirdData() up to its first await, in a render with center mc and
\* parameters db, st: the gate, setLoading(true) and the primary request
fetchBirdData(mc, db, st) ==
    IF ShouldFetch(lastFetchLocation, lastFetchParams, mc, db, st)
    THEN \E ext \in Extents :
            /\ Len(cycles) < MaxCycles
            /\ loading' = TRUE
            /\ cycles' = Append(cycles, NewCycle(mc, db, st, ext))
            /\ console' = << >>
    ELSE /\ console' = SkipLog
         /\ UNCHANGED <<loading, cycles>>

\* Mutant of RunEffect: the effect does not test the loading flag.
RunEffectWithoutLoadingTest(mc, db, st) == fetchBirdData(mc, db, st)

\* useEffect(() => { if (!loading) fetchBirdData() }, [daysBack, sightingType, mapCenter])
RunEffect(mc, db, st) ==
    IF ~loading
    THEN fetchBirdData(mc, db, st)
    ELSE /\ console' = << >>
         /\ UNCHANGED <<loading, cycles>>

\* the effects of the first render
Mount ==
    /\ ~mounted
    /\ mounted' = TRUE
    /\ RunEffect(mapCenter, daysBack, sightingType)
    /\ alert' = NoAlert
    /\ published' = FALSE
    /\ UNCHANGED <<mapCenter, lastFetchLocation, lastFetchParams, birdSightings,
                   mapRef, sightingType, daysBack>>
    /\ UNCHANGED variantVars

\* <MapContainer ref={setMapRef}>
SetMapRef ==
    /\ mounted
    /\ ~mapRef
    /\ mapRef' = TRUE
    /\ alert' = NoAlert
    /\ console' = << >>
    /\ published' = FALSE
    /\ UNCHANGED <<mounted, mapCenter, lastFetchLocation, lastFetchParams,
                   birdSightings, loading, sightingType, daysBack, cycles>>
    /\ UNCHANGED variantVars

\* handleMoveEnd(center), then the effect of the render it causes
MoveEnd(center) ==
    /\ mounted
    /\ mapCenter' = [lat |-> center.lat, lng |-> center.lng]
    /\ RunEffect(center, daysBack, sightingType)
    /\ alert' = NoAlert
    /\ published' = FALSE
    /\ UNCHANGED <<mounted, lastFetchLocation, lastFetchParams, birdSightings,
                   mapRef, sightingType, daysBack>>
    /\ UNCHANGED variantVars

\* handleDaysChange(e), then the effect of the render it causes.  The select
\* stays enabled while loading.
DaysChange(value) ==
    /\ mounted
    /\ value # daysBack
    /\ daysBack' = value
    /\ RunEffect(mapCenter, value, sightingType)
    /\ alert' = NoAlert
    /\ published' = FALSE
    /\ UNCHANGED <<mounted, mapCenter, lastFetchLocation, lastFetchParams,
                   birdSightings, mapRef, sightingType>>
    /\ UNCHANGED variantVars

\* onChange of the sighting type select (disabled={loading}), then the effect
\* of the render it causes
TypeChange(value) ==
    /\ mounted
    /\ ~loading
    /\ value # sightingType
    /\ sightingType' = value
    /\ RunEffect(mapCenter, daysBack, value)
    /\ alert' = NoAlert
    /\ published' = FALSE
    /\ UNCHANGED <<mounted, mapCenter, lastFetchLocation, lastFetchParams,
                   birdSightings, mapRef, daysBack>>
    /\ UNCHANGED variantVars

\* Mutant of CatchFinally: the queried position is recorded although the
\* activation failed (as when it is recorded before the request).
CatchFinallyRecordingPosition(i, error) ==
    /\ console' = DataErrorLog(error)
    /\ alert' = FetchErrorAlert
    /\ loading' = FALSE
    /\ cycles' = RemoveAt(cycles, i)
    /\ published' = FALSE
    /\ lastFetchLocation' = [lat |-> cycles[i].lat, lng |-> cycles[i].lng]
    /\ UNCHANGED <<birdSightings, lastFetchParams>>

\* Mutant of CatchFinally: there is no finally block, a failed activation
\* leaves the loading flag as it is.
CatchWithoutFinally(i, error) ==
    /\ console' = DataErrorLog(error)
    /\ alert' = FetchErrorAlert
    /\ cycles' = RemoveAt(cycles, i)
    /\ published' = FALSE
    /\ UNCHANGED <<birdSightings, lastFetchLocation, lastFetchParams, loading>>

\* catch (error) { console.error(...); alert(...) } finally { setLoading(false) }
\* of activation i
CatchFinally(i, error) ==
    /\ console' = DataErrorLog(error)
    /\ alert' = FetchErrorAlert
    /\ loading' = FALSE
    /\ cycles' = RemoveAt(cycles, i)
    /\ published' = FALSE
    /\ UNCHANGED <<birdSightings, lastFetchLocation, lastFetchParams>>

\* Mutant of PrimaryFailed: the status of the response is not tested.
PrimaryFailedWithoutStatusTest(outcome) == outcome.kind \notin {"ok", "notOk"}

\* TRUE when the primary request ends in the catch block: fetch() rejected,
\* !response.ok, response.json() rejected, or data.filter is no function
PrimaryFailed(outcome) == outcome.kind # "ok"

\* the error the primary request throws
PrimaryError(outcome) ==
    CASE outcome.kind = "reject"   -> "TypeError: Failed to fetch"
      [] outcome.kind = "notOk"    -> "Error: Failed to fetch bird sightings"
      [] outcome.kind = "badJson"  -> "SyntaxError: Unexpected token"
      [] outcome.kind = "nonArray" -> "TypeError: data.filter is not a function"

\* TRUE when data.filter throws: sighting.obsValid of an element null
FilterThrows(data) == \E k \in 1..Len(data) : data[k] = NullRecord

\* the primary request of activation i ends with outcome: the activation
\* fails, or it filters the observations and sends the lookup request
PrimaryResponse(i, outcome) ==
    /\ i \in 1..Len(cycles)
    /\ cycles[i].pc = "primary"
    /\ IF PrimaryFailed(outcome)
       THEN CatchFinally(i, PrimaryError(outcome))
       ELSE IF FilterThrows(outcome.body)
       THEN CatchFinally(i, "TypeError: Cannot read properties of null")
       ELSE /\ cycles' = [cycles EXCEPT ![i].pc = "lookup",
                                         ![i].data = outcome.body,
                                         ![i].species = UniqueSpecies(ValidSightings(outcome.body))]
            /\ alert' = NoAlert
            /\ console' = << >>
            /\ published' = FALSE
            /\ UNCHANGED <<birdSightings, lastFetchLocation, lastFetchParams, loading>>
    /\ UNCHANGED <<mounted, mapCenter, mapRef, sightingType, daysBack>>
    /\ UNCHANGED variantVars

\* speciesPhotos when photoData.species is undefined
UndefinedPhotos == [undefined |-> TRUE]

\* TRUE when the inner try block throws: fetch() rejected, photoResponse.json()
\* rejected, or photoData is null
LookupThrew(outcome) ==
    \/ outcome.kind \in {"reject", "badJson"}
    \/ outcome.kind = "ok" /\ outcome.body = JsonNull

\* Mutant of SpeciesPhotos: speciesPhotos does not start empty, a species
\* map of an earlier lookup is still in it.
SpeciesPhotosStartingFilled(outcome) ==
    IF outcome.kind = "ok" /\ ~LookupThrew(outcome)
    THEN IF "species" \in DOMAIN outcome.body
         THEN outcome.body.species
         ELSE UndefinedPhotos
    ELSE RobinPhotos

\* speciesPhotos after the inner try/catch: {} unless the response is ok and
\* its body parses to an object, then photoData.species
SpeciesPhotos(outcome) ==
    IF outcome.kind = "ok" /\ ~LookupThrew(outcome)
    THEN IF "species" \in DOMAIN outcome.body
         THEN outcome.body.species
         ELSE UndefinedPhotos
    ELSE NoPhotos

\* Mutant of Publish: the live center and parameters are recorded, not the
\* ones of the activation's closure.
PublishRecordingLiveState(i, outcome) ==
    /\ birdSightings' = ProcessedSightings(ValidSightings(cycles[i].data), SpeciesPhotos(outcome))
    /\ lastFetchLocation' = [lat |-> ToFixed4(mapCenter.lat), lng |-> ToFixed4(mapCenter.lng)]
    /\ lastFetchParams' = [daysBack |-> daysBack, sightingType |-> sightingType]
    /\ loading' = FALSE
    /\ cycles' = RemoveAt(cycles, i)
    /\ alert' = NoAlert
    /\ console' = IF LookupThrew(outcome) THEN PhotoErrorLog ELSE << >>
    /\ published' = TRUE

\* Mutant of Publish: the center of the fetch is recorded, its parameters are
\* not.
PublishRecordingCenterOnly(i, outcome) ==
    /\ birdSightings' = ProcessedSightings(ValidSightings(cycles[i].data), SpeciesPhotos(outcome))
    /\ lastFetchLocation' = [lat |-> cycles[i].lat, lng |-> cycles[i].lng]
    /\ UNCHANGED lastFetchParams
    /\ loading' = FALSE
    /\ cycles' = RemoveAt(cycles, i)
    /\ alert' = NoAlert
    /\ console' = IF LookupThrew(outcome) THEN PhotoErrorLog ELSE << >>
    /\ published' = TRUE

\* Mutant of Publish: the loading flag is not cleared after the clusters are
\* published.
PublishWithoutFinally(i, outcome) ==
    /\ birdSightings' = ProcessedSightings(ValidSightings(cycles[i].data), SpeciesPhotos(outcome))
    /\ lastFetchLocation' = [lat |-> cycles[i].lat, lng |-> cycles[i].lng]
    /\ lastFetchParams' = [daysBack |-> cycles[i].daysBack,
                           sightingType |-> cycles[i].sightingType]
    /\ UNCHANGED loading
    /\ cycles' = RemoveAt(cycles, i)
    /\ alert' = NoAlert
    /\ console' = IF LookupThrew(outcome) THEN PhotoErrorLog ELSE << >>
    /\ published' = TRUE

\* the last synchronous part of activation i: the clusters are published and
\* the fetch is recorded
Publish(i, outcome) ==
    /\ cycles' = RemoveAt(cycles, i)
    /\ loading' = FALSE
    /\ alert' = NoAlert
    /\ console' = IF LookupThrew(outcome) THEN PhotoErrorLog ELSE << >>
    /\ published' = TRUE
    /\ lastFetchLocation' = [lat |-> cycles[i].lat, lng |-> cycles[i].lng]
    /\ lastFetchParams' = [daysBack |-> cycles[i].daysBack,
                           sightingType |-> cycles[i].sightingType]
    /\ birdSightings' = ProcessedSightings(ValidSightings(cycles[i].data), SpeciesPhotos(outcome))

\* Mutant of JoinThrows: an undefined speciesPhotos makes every response
\* throw, with or without a species to look up.
JoinThrowsWithoutSpecies(data, outcome) == SpeciesPhotos(outcome) = UndefinedPhotos

\* TRUE when the join throws: speciesPhotos[speciesKey] of an undefined
\* speciesPhotos, read for the first species of the first location
JoinThrows(data, outcome) ==
    SpeciesPhotos(outcome) = UndefinedPhotos /\ ValidSightings(data) # << >>

\* the lookup request of activation i ends with outcome: the join, then the
\* clusters are published, unless the join throws
LookupResponse(i, outcome) ==
    /\ i \in 1..Len(cycles)
    /\ cycles[i].pc = "lookup"
    /\ IF JoinThrows(cycles[i].data, outcome)
       THEN CatchFinally(i, "TypeError: Cannot read properties of undefined")
       ELSE Publish(i, outcome)
    /\ UNCHANGED <<mounted, mapCenter, mapRef, sightingType, daysBack>>
    /\ UNCHANGED variantVars

Next ==
    \/ Mount
    \/ SetMapRef
    \/ \E center \in Centers : MoveEnd(center)
    \/ \E value \in DaysBackOptions : DaysChange(value)
    \/ \E value \in SightingTypes : TypeChange(value)
    \/ \E i \in 1..MaxCycles : \E outcome \in PrimaryOutcomes : PrimaryResponse(i, outcome)
    \/ \E i \in 1..MaxCycles : \E outcome \in LookupOutcomes : LookupResponse(i, outcome)

Spec == Init /\ [][Next]_vars

\* the promise of activation i's pending network call settles
PrimarySettles(i) == \E outcome \in PrimaryOutcomes : PrimaryResponse(i, outcome)
LookupSettles(i) == \E outcome \in LookupOutcomes : LookupResponse(i, outcome)

\* activation i awaits the response of its lookup: LookupSettles(i) is
\* enabled exactly then, every outcome has a successor and the step changes
\* pc or removes the activation
AwaitsLookup(i) == i \in 1..Len(cycles) /\ cycles[i].pc = "lookup"

\* BirdMap.jsx with every issued network call eventually resolving or
\* rejecting: weak fairness of PrimarySettles(i) and of LookupSettles(i), the
\* latter written out with AwaitsLookup(i) for ENABLED <<LookupSettles(i)>>_vars
FairSpec ==
    /\ Spec
    /\ \A i \in 1..MaxCycles :
          /\ WF_vars(PrimarySettles(i))
          /\ ([]<>(~AwaitsLookup(i)) \/ []<><<LookupSettles(i)>>_vars)

----------------------------------------------------------------------------
(* The component BirdMap of part_000: no gate and no radius, the query is   *)
(* sent by the mount and by the button 'Update for this area'               *)

\* the movement after which handleMoveEnd shows the update button, in metres
UpdateButtonMetres == 10000

\* a center 0.09 degree (10007 m) north of the initial center
FarCenter == [lat |-> 3706410, lng |-> 0 - 12203080]

\* Centers the map of part_000 can settle on: those of BirdMap.jsx, all within
\* 10 km of each other, and the far one
VariantCenters == Centers \cup {FarCenter}

\* fetchBirdData() of part_000 up to its first await, in a render with center
\* mc: setLoading(true), setLastQueriedPosition and the primary request
VariantFetchBirdData(mc) ==
    /\ Len(activations) < MaxCycles
    /\ loading' = TRUE
    /\ lastQueriedPosition' = [lat |-> ToFixed4(mc.lat), lng |-> ToFixed4(mc.lng)]
    /\ activations' = Append(activations,
                             [pc        |-> "primary",
                              mapCenter |-> mc,
                              lat       |-> ToFixed4(mc.lat),
                              lng       |-> ToFixed4(mc.lng),
                              data      |-> << >>,
                              species   |-> << >>])
    /\ console' = << >>

\* useEffect(() => { fetchBirdData() }, [])
VariantMount ==
    /\ ~mounted
    /\ mounted' = TRUE
    /\ VariantFetchBirdData(mapCenter)
    /\ alert' = NoAlert
    /\ published' = FALSE
    /\ UNCHANGED <<mapCenter, birdSightings, showUpdateButton>>
    /\ UNCHANGED gateVars

\* Mutant of VariantMoveEnd: the update button is shown after every settle.
VariantMoveEndAlwaysOffering(center) ==
    /\ mounted
    /\ mapCenter' = [lat |-> center.lat, lng |-> center.lng]
    /\ showUpdateButton' = TRUE
    /\ alert' = NoAlert
    /\ console' = << >>
    /\ published' = FALSE
    /\ UNCHANGED <<mounted, birdSightings, loading, lastQueriedPosition, activations>>
    /\ UNCHANGED gateVars

\* handleMoveEnd(center) of part_000
VariantMoveEnd(center) ==
    /\ mounted
    /\ mapCenter' = [lat |-> center.lat, lng |-> center.lng]
    /\ showUpdateButton' =
          IF lastQueriedPosition # NULL
          THEN calculateDistance(lastQueriedPosition.lat, lastQueriedPosition.lng,
                                 center.lat, center.lng) >= UpdateButtonMetres
          ELSE TRUE
    /\ alert' = NoAlert
    /\ console' = << >>
    /\ published' = FALSE
    /\ UNCHANGED <<mounted, birdSightings, loading, lastQueriedPosition, activations>>
    /\ UNCHANGED gateVars

\* onClick of the update button (rendered when showUpdateButton,
\* disabled={loading}): fetchBirdData(); setShowUpdateButton(false)
UpdateClick ==
    /\ mounted
    /\ showUpdateButton
    /\ ~loading
    /\ VariantFetchBirdData(mapCenter)
    /\ showUpdateButton' = FALSE
    /\ alert' = NoAlert
    /\ published' = FALSE
    /\ UNCHANGED <<mounted, mapCenter, birdSightings>>
    /\ UNCHANGED gateVars

\* catch (error) { console.error(...); alert(...) } finally { setLoading(false) }
\* of activation i of part_000
VariantCatchFinally(i, error) ==
    /\ console' = DataErrorLog(error)
    /\ alert' = FetchErrorAlert
    /\ loading' = FALSE
    /\ activations' = RemoveAt(activations, i)
    /\ published' = FALSE
    /\ UNCHANGED birdSightings

\* the primary request of activation i of part_000 ends with outcome
VariantPrimaryResponse(i, outcome) ==
    /\ i \in 1..Len(activations)
    /\ activations[i].pc = "primary"
    /\ IF PrimaryFailed(outcome)
       THEN VariantCatchFinally(i, PrimaryError(outcome))
       ELSE IF FilterThrows(outcome.body)
       THEN VariantCatchFinally(i, "TypeError: Cannot read properties of null")
       ELSE /\ activations' =
                 [activations EXCEPT ![i].pc = "lookup",
                                     ![i].data = outcome.body,
                                     ![i].species = UniqueSpecies(ValidSightings(outcome.body))]
            /\ alert' = NoAlert
            /\ console' = << >>
            /\ published' = FALSE
            /\ UNCHANGED <<birdSightings, loading>>
    /\ UNCHANGED <<mounted, mapCenter, lastQueriedPosition, showUpdateButton>>
    /\ UNCHANGED gateVars

\* the last synchronous part of activation i of part_000: the clusters are
\* published
VariantPublish(i, outcome) ==
    /\ activations' = RemoveAt(activations, i)
    /\ loading' = FALSE
    /\ alert' = NoAlert
    /\ console' = IF LookupThrew(outcome) THEN PhotoErrorLog ELSE << >>
    /\ published' = TRUE
    /\ birdSightings' =
          ProcessedSightings(ValidSightings(activations[i].data), SpeciesPhotos(outcome))

\* the lookup request of activation i of part_000 ends with outcome
VariantLookupResponse(i, outcome) ==
    /\ i \in 1..Len(activations)
    /\ activations[i].pc = "lookup"
    /\ IF JoinThrows(activations[i].data, outcome)
       THEN VariantCatchFinally(i, "TypeError: Cannot read properties of undefined")
       ELSE VariantPublish(i, outcome)
    /\ UNCHANGED <<mounted, mapCenter, lastQueriedPosition, showUpdateButton>>
    /\ UNCHANGED gateVars

VariantNext ==
    \/ VariantMount
    \/ \E center \in VariantCenters : VariantMoveEnd(center)
    \/ UpdateClick
    \/ \E i \in 1..MaxCycles : \E outcome \in PrimaryOutcomes : VariantPrimaryResponse(i, outcome)
    \/ \E i \in 1..MaxCycles : \E outcome \in LookupOutcomes : VariantLookupResponse(i, outcome)

VariantSpec == Init /\ [][VariantNext]_vars

----------------------------------------------------------------------------
(* The response specification: the first fetch cycle of either component,  *)
(* with every array of at most MaxObservations sample records as the body  *)
(* of the primary response                                                 *)

ResponseNext ==
    \/ Mount
    \/ VariantMount
    \/ \E i \in 1..Len(cycles) :
          /\ cycles[i].pc = "primary"
          /\ \E outcome \in ResponseOutcomes : PrimaryResponse(i, outcome)
    \/ \E i \in 1..Len(cycles) : \E outcome \in LookupOutcomes : LookupResponse(i, outcome)
    \/ \E i \in 1..Len(activations) :
          /\ activations[i].pc = "primary"
          /\ \E outcome \in ResponseOutcomes : VariantPrimaryResponse(i, outcome)
    \/ \E i \in 1..Len(activations) : \E outcome \in LookupOutcomes : VariantLookupResponse(i, outcome)

ResponseSpec == Init /\ [][ResponseNext]_vars

----------------------------------------------------------------------------
(* Properties *)

\* no activation of fetchBirdData is suspended and the loading flag is clear
Idle == ~loading /\ cycles = << >>

\* calculateDistance between two points
Distance(a, b) == calculateDistance(a.lat, a.lng, b.lat, b.lng)

\* a step in which a viewport or parameter change runs the effect
ChangeStep ==
    \/ \E center \in Centers : MoveEnd(center)
    \/ \E value \in DaysBackOptions : DaysChange(value)
    \/ \E value \in SightingTypes : TypeChange(value)

\* a step in which activation i ends: its primary request fails, or its
\* lookup request returns
CycleEnds(i) ==
    \/ \E outcome \in PrimaryOutcomes : PrimaryFailed(outcome) /\ PrimaryResponse(i, outcome)
    \/ \E outcome \in LookupOutcomes : LookupResponse(i, outcome)

\* C1: at most one fetch cycle is in flight at any time, and the loading flag
\* is set for as long as it is: no primary query is issued between the start
\* of a cycle and the point where it clears the loading flag.
C1_AtMostOneCycleInFlight ==
    /\ Len(cycles) <= 1
    /\ cycles # << >> => loading

\* C1 witness: a cycle is in flight and both the center and the day window
\* changed after it started.
C1_Witness ==
    /\ Len(cycles) = 1
    /\ cycles[1].mapCenter # mapCenter
    /\ cycles[1].daysBack # daysBack

\* C2 (as claimed): when a cycle ends after the center or the parameters
\* changed while it was in flight, the gate is evaluated against the latest
\* center and parameters without a further event: a new cycle starts if the
\* gate approves.
C2_ChangeInFlightIsReevaluated ==
    [][ \A i \in 1..Len(cycles) :
          ( /\ CycleEnds(i)
            /\ \/ cycles[i].mapCenter # mapCenter
               \/ cycles[i].daysBack # daysBack
               \/ cycles[i].sightingType # sightingType
            /\ ShouldFetch(lastFetchLocation', lastFetchParams', mapCenter', daysBack', sightingType') )
          => (loading' /\ cycles' # << >>) ]_vars

\* C3: when the primary query of a cycle fails, birdSightings,
\* lastFetchLocation and lastFetchParams after the cycle are what they were
\* when the cycle started.
C3_PrimaryFailureChangesNothing ==
    [][ \A i \in 1..Len(cycles) : \A outcome \in PrimaryOutcomes :
          (PrimaryFailed(outcome) /\ PrimaryResponse(i, outcome))
          => /\ birdSightings' = cycles[i].birdSightings
             /\ lastFetchLocation' = cycles[i].lastFetchLocation
             /\ lastFetchParams' = cycles[i].lastFetchParams ]_vars

\* C3 witness: a primary query for another center than the recorded one has
\* just failed with a non-success status, and clusters published earlier are
\* still there.
C3_Witness ==
    /\ console = DataErrorLog("Error: Failed to fetch bird sightings")
    /\ alert = FetchErrorAlert
    /\ birdSightings # << >>
    /\ lastFetchLocation # NULL
    /\ lastFetchLocation # [lat |-> ToFixed4(mapCenter.lat), lng |-> ToFixed4(mapCenter.lng)]

\* the lookup request failed, or its body has no species map
LookupFailedOrNoMap(outcome) ==
    \/ outcome.kind \in {"reject", "notOk", "badJson"}
    \/ outcome.kind = "ok" /\ "species" \notin DOMAIN outcome.body

\* C4 (as claimed): when the primary query returned at least one valid
\* observation and the lookup rejects, has a non-success status, an unparsable
\* body or a body without a species map, the cycle publishes the clusters
\* without photos, records the fetch and raises no alert.
C4_LookupFailureIsAbsorbed ==
    [][ \A i \in 1..Len(cycles) : \A outcome \in LookupOutcomes :
          ( /\ LookupResponse(i, outcome)
            /\ ValidSightings(cycles[i].data) # << >>
            /\ LookupFailedOrNoMap(outcome) )
          => /\ published'
             /\ birdSightings' = ProcessedSightings(ValidSightings(cycles[i].data), NoPhotos)
             /\ lastFetchLocation' = [lat |-> cycles[i].lat, lng |-> cycles[i].lng]
             /\ lastFetchParams' = [daysBack |-> cycles[i].back, sightingType |-> cycles[i].type]
             /\ alert' = NoAlert ]_vars

\* C5: a cycle that publishes (the step that calls setBirdSightings and ends
\* the cycle) records the center and the parameters its primary query was
\* issued with, whatever the live center and parameters are by then, and no
\* other step writes lastFetchLocation or lastFetchParams.
C5_FetchStateIsTheQuery ==
    [][ /\ published' =>
              \E i \in 1..Len(cycles) :
                  /\ cycles[i].pc = "lookup"
                  /\ cycles' = RemoveAt(cycles, i)
                  /\ lastFetchLocation' = [lat |-> cycles[i].lat, lng |-> cycles[i].lng]
                  /\ lastFetchParams' = [daysBack |-> cycles[i].back, sightingType |-> cycles[i].type]
        /\ (lastFetchLocation' # lastFetchLocation \/ lastFetchParams' # lastFetchParams)
              => published' ]_vars

\* C5 witness: a cycle has just published, and neither the live center nor
\* the live day window is the recorded one.
C5_Witness ==
    /\ published
    /\ lastFetchLocation # [lat |-> ToFixed4(mapCenter.lat), lng |-> ToFixed4(mapCenter.lng)]
    /\ lastFetchParams.daysBack # daysBack

\* C6 (as claimed): every primary query in flight was issued with no
\* FetchState, or with parameters that differ from FetchState's, or with a
\* center (the query's lat, lng) at least 3 km from FetchState's center.
C6_QueryCenterPassesGate ==
    \A i \in 1..Len(cycles) :
        \/ cycles[i].lastFetchParams = NULL
        \/ cycles[i].lastFetchLocation = NULL
        \/ cycles[i].back # cycles[i].lastFetchParams.daysBack
        \/ cycles[i].type # cycles[i].lastFetchParams.sightingType
        \/ Distance(cycles[i].lastFetchLocation, [lat |-> cycles[i].lat, lng |-> cycles[i].lng])
               >= MinMoveMetres

\* C6 (amended): every primary query in flight was issued with no FetchState,
\* or with parameters that differ from FetchState's, or from a map center
\* (before its rounding to 4 decimals) at least 3 km from FetchState's center.
C6_MapCenterPassesGate ==
    \A i \in 1..Len(cycles) :
        \/ cycles[i].lastFetchParams = NULL
        \/ cycles[i].lastFetchLocation = NULL
        \/ cycles[i].back # cycles[i].lastFetchParams.daysBack
        \/ cycles[i].type # cycles[i].lastFetchParams.sightingType
        \/ Distance(cycles[i].lastFetchLocation, cycles[i].mapCenter) >= MinMoveMetres

\* C6 witness: a query in flight passed the gate on distance alone.
C6_Witness ==
    /\ Len(cycles) = 1
    /\ cycles[1].pc = "primary"
    /\ cycles[1].lastFetchParams = [daysBack |-> cycles[1].back, sightingType |-> cycles[1].type]
    /\ Distance(cycles[1].lastFetchLocation, cycles[1].mapCenter) >= MinMoveMetres

\* C7: when idle with a FetchState, a change after which daysBack or
\* sightingType differs from FetchState's parameters starts a fetch, whatever
\* the distance.
C7_ParamChangeAlwaysFetches ==
    [][ ( /\ Idle
          /\ lastFetchParams # NULL
          /\ ChangeStep
          /\ \/ daysBack' # lastFetchParams.daysBack
             \/ sightingType' # lastFetchParams.sightingType )
        => /\ loading'
           /\ Len(cycles') = 1
           /\ cycles'[1].pc = "primary"
           /\ cycles'[1].back = daysBack'
           /\ cycles'[1].type = sightingType' ]_vars

\* C7 witness: a query in flight was issued at distance 0 from FetchState's
\* center with another classification.
C7_Witness ==
    /\ Len(cycles) = 1
    /\ cycles[1].pc = "primary"
    /\ cycles[1].lastFetchParams # NULL
    /\ cycles[1].lastFetchParams.sightingType # cycles[1].type
    /\ Distance(cycles[1].lastFetchLocation, cycles[1].mapCenter) = 0

\* C8: when idle with a FetchState whose parameters are the current ones, a
\* change starts a fetch if and only if the new center is at least 3 km from
\* FetchState's center.
C8_SameParamsFetchIffMoved ==
    [][ ( /\ Idle
          /\ lastFetchParams # NULL
          /\ lastFetchLocation # NULL
          /\ ChangeStep
          /\ daysBack' = lastFetchParams.daysBack
          /\ sightingType' = lastFetchParams.sightingType )
        => ( (loading' /\ Len(cycles') = 1)
               <=> Distance(lastFetchLocation, mapCenter') >= MinMoveMetres ) ]_vars

\* C8 witness: a query in flight was issued with FetchState's parameters at
\* exactly 3 km from FetchState's center.
C8_Witness ==
    /\ Len(cycles) = 1
    /\ cycles[1].pc = "primary"
    /\ cycles[1].lastFetchParams = [daysBack |-> cycles[1].back, sightingType |-> cycles[1].type]
    /\ Distance(cycles[1].lastFetchLocation, cycles[1].mapCenter) = MinMoveMetres

\* C9: when idle after the mount with no FetchState, every viewport or
\* parameter change starts a fetch.
C9_NoFetchStateAlwaysFetches ==
    [][ ( /\ Idle
          /\ lastFetchLocation = NULL
          /\ lastFetchParams = NULL
          /\ ChangeStep )
        => /\ loading'
           /\ Len(cycles') = 1
           /\ cycles'[1].pc = "primary"
           /\ cycles'[1].mapCenter = mapCenter' ]_vars

\* C9 witness: after a failed first load a query is in flight for a center
\* about 1 km from the initial one.
C9_Witness ==
    /\ Len(cycles) = 1
    /\ cycles[1].pc = "primary"
    /\ cycles[1].lastFetchLocation = NULL
    /\ cycles[1].lastFetchParams = NULL
    /\ cycles[1].mapCenter # InitialCenter
    /\ Distance(InitialCenter, cycles[1].mapCenter) < MinMoveMetres

\* C10: the 'dist' of every primary query is at most 25 km.
C10_DistAtMost25 ==
    \A i \in 1..Len(cycles) : cycles[i].dist <= ToFixed1(MaxRadius)

\* C10 witness: a query in flight for a view more than 50 km wide carries 25.0.
C10_Witness ==
    \E i \in 1..Len(cycles) :
        /\ cycles[i].mapRef
        /\ Distance(cycles[i].ne, [lat |-> cycles[i].ne.lat, lng |-> cycles[i].sw.lng]) > 2 * MaxRadius
        /\ cycles[i].dist = ToFixed1(MaxRadius)

\* C11: the radius of every query is min(max(eastWest, northSouth) / 2, 25 km)
\* when the activation read the bounds of the map, eastWest being the distance
\* from the NE corner to (NE.lat, SW.lng) and northSouth the distance from the
\* NE corner to (SW.lat, NE.lng); it is 25 km when it had no map.
C11_RadiusIsHalfTheLargerExtentCapped ==
    \A i \in 1..Len(cycles) :
        IF cycles[i].ne # NULL /\ cycles[i].sw # NULL
        THEN LET ne == cycles[i].ne
                 sw == cycles[i].sw
                 eastWest   == Distance(ne, [lat |-> ne.lat, lng |-> sw.lng])
                 northSouth == Distance(ne, [lat |-> sw.lat, lng |-> ne.lng])
                 larger     == IF eastWest >= northSouth THEN eastWest ELSE northSouth
                 half       == larger \div 2
             IN  cycles[i].radius = IF half <= 25000 THEN half ELSE 25000
        ELSE cycles[i].radius = 25000

\* C11 witness: a query in flight for a view that is taller than wide, with a
\* radius below the cap.
C11_Witness ==
    \E i \in 1..Len(cycles) :
        /\ cycles[i].ne # NULL
        /\ Distance(cycles[i].ne, [lat |-> cycles[i].sw.lat, lng |-> cycles[i].ne.lng])
             > Distance(cycles[i].ne, [lat |-> cycles[i].ne.lat, lng |-> cycles[i].sw.lng])
        /\ cycles[i].radius < MaxRadius

\* C12 (as claimed): a step raises the alert 'Error fetching bird sightings'
\* if and only if it is the end of a primary query that failed: the lookup
\* and the records of the response never raise it.
C12_AlertIffPrimaryFailed ==
    [][ /\ alert' = FetchErrorAlert
            => \E i \in 1..Len(cycles) :
                   /\ cycles[i].pc = "primary"
                   /\ cycles' = RemoveAt(cycles, i)
        /\ \A i \in 1..Len(cycles) :
               (cycles[i].pc = "primary" /\ cycles' = RemoveAt(cycles, i))
               => alert' = FetchErrorAlert ]_vars

\* no SpeciesRecord of the clusters has a thumbnail or a full-size photo URL
NoPhotoUrls(clusters) ==
    \A c \in 1..Len(clusters) : \A b \in 1..Len(clusters[c].birds) :
        DOMAIN clusters[c].birds[b] \cap {"thumbnailUrl", "fullPhotoUrl"} = {}

\* C13: in BirdMap.jsx and in part_000, when the lookup rejects or returns a
\* non-success status, the cycle publishes clusters without any photo URL,
\* and they are the clusters of the grouping alone.
C13_FailedLookupPublishesWithoutPhotos ==
    [][ \A outcome \in LookupOutcomes :
          outcome.kind \in {"reject", "notOk"} =>
            /\ \A i \in 1..Len(cycles) :
                   LookupResponse(i, outcome) =>
                     /\ published'
                     /\ NoPhotoUrls(birdSightings')
                     /\ birdSightings' =
                           ProcessedSightings(ValidSightings(cycles[i].data), NoPhotos)
            /\ \A i \in 1..Len(activations) :
                   VariantLookupResponse(i, outcome) =>
                     /\ published'
                     /\ NoPhotoUrls(birdSightings')
                     /\ birdSightings' =
                           ProcessedSightings(ValidSightings(activations[i].data), NoPhotos)
      ]_vars

\* C13 witness: part_000 has just published clusters after its lookup
\* rejected.
C13_Witness ==
    /\ published
    /\ console = PhotoErrorLog
    /\ lastQueriedPosition # NULL
    /\ birdSightings # << >>
    /\ NoPhotoUrls(birdSightings)

\* obsValid of the record is true
IsValidObservation(o) == "obsValid" \in DOMAIN o /\ o.obsValid = TRUE

\* the (lat, lng) of a record; a coordinate the record lacks is not a number
LocationOf(o) ==
    << IF "lat" \in DOMAIN o THEN o.lat ELSE NaN,
       IF "lng" \in DOMAIN o THEN o.lng ELSE NaN >>

\* the valid records of data seen at the location with the common name, in
\* the order of data
MergedObservations(data, location, comName) ==
    SelectSeq(data, LAMBDA o : /\ IsValidObservation(o)
                               /\ LocationOf(o) = location
                               /\ Get(o, "comName") = comName)

\* in a step that publishes: the body of the primary response of the
\* activation that publishes
PublishedData ==
    IF \E i \in 1..Len(cycles) : cycles[i].pc = "lookup" /\ cycles' = RemoveAt(cycles, i)
    THEN cycles[CHOOSE i \in 1..Len(cycles) :
                    cycles[i].pc = "lookup" /\ cycles' = RemoveAt(cycles, i)].data
    ELSE activations[CHOOSE i \in 1..Len(activations) :
                    activations[i].pc = "lookup" /\ activations' = RemoveAt(activations, i)].data

\* the activations that have filtered their response and await the lookup
AwaitingLookup ==
    { cycles[i] : i \in { j \in 1..Len(cycles) : cycles[j].pc = "lookup" } }
        \cup { activations[i] : i \in { j \in 1..Len(activations) : activations[j].pc = "lookup" } }

\* C14: a record whose obsValid is not true contributes nothing: every
\* species key of a lookup request is the key of a valid record of the
\* response, and in the published clusters every cluster is at the location
\* of a valid record, every SpeciesRecord has the common name of a valid
\* record at that location, and every subId is the one of such a record.
C14_InvalidContributesNothing ==
    [][ /\ \A a \in AwaitingLookup' :
               \A k \in 1..Len(a.species) :
                   \E n \in 1..Len(a.data) :
                       /\ IsValidObservation(a.data[n])
                       /\ SpeciesKey(a.data[n]) = a.species[k]
        /\ published' =>
              LET data == PublishedData IN
              \A c \in 1..Len(birdSightings') :
                  LET cluster == birdSightings'[c] IN
                  /\ \E n \in 1..Len(data) :
                         /\ IsValidObservation(data[n])
                         /\ LocationOf(data[n]) = << cluster.lat, cluster.lng >>
                  /\ \A b \in 1..Len(cluster.birds) :
                         LET bird == cluster.birds[b] IN
                         \A s \in 1..Len(bird.subIds) :
                             \E n \in 1..Len(data) :
                                 /\ IsValidObservation(data[n])
                                 /\ LocationOf(data[n]) = << cluster.lat, cluster.lng >>
                                 /\ Get(data[n], "comName") = Get(bird, "comName")
                                 /\ Get(data[n], "subId") = bird.subIds[s]
      ]_vars

\* C14 witness: an activation has filtered a response with an invalid Wren
\* between two valid Robins and asks for the photos of the Robin only.
C14_Witness ==
    \E a \in AwaitingLookup :
        /\ a.data = << RobinFirst, WrenInvalid, RobinAgain >>
        /\ a.species = << "Turdus_Robin" >>

\* C15: the valid records of a response that share (lat, lng) and common
\* name are merged into exactly one published SpeciesRecord, and its subIds
\* are their submission ids, one per record, in the order of the response.
C15_SameLocationAndNameMergeInOrder ==
    [][ published' =>
          LET data == PublishedData IN
          \A n \in 1..Len(data) :
              IsValidObservation(data[n]) =>
                LET location == LocationOf(data[n])
                    comName  == Get(data[n], "comName")
                    merged   == MergedObservations(data, location, comName)
                    records  == { << c, b >> \in (1..Len(data)) \X (1..Len(data)) :
                                    /\ c <= Len(birdSightings')
                                    /\ b <= Len(birdSightings'[c].birds)
                                    /\ << birdSightings'[c].lat, birdSightings'[c].lng >> = location
                                    /\ Get(birdSightings'[c].birds[b], "comName") = comName }
                IN  /\ Cardinality(records) = 1
                    /\ \A r \in records :
                           birdSightings'[r[1]].birds[r[2]].subIds =
                               [ k \in 1..Len(merged) |-> Get(merged[k], "subId") ]
      ]_vars

\* C15 witness: a published SpeciesRecord merges the two Robin records of a
\* response that listed the second submission first.
C15_Witness ==
    /\ published
    /\ \E c \in 1..Len(birdSightings) : \E b \in 1..Len(birdSightings[c].birds) :
           birdSightings[c].birds[b].subIds = << "S2", "S1" >>

\* C16: in the clusters a step publishes no two clusters have the same
\* (lat, lng), no two SpeciesRecords of a cluster have the same common name,
\* and the locations of the clusters are the (lat, lng) pairs of the valid
\* records of the response.
C16_ClustersAreTheDistinctLocations ==
    [][ published' =>
          LET data == PublishedData
              clusters == birdSightings'
          IN  /\ \A c, d \in 1..Len(clusters) :
                     (clusters[c].lat = clusters[d].lat /\ clusters[c].lng = clusters[d].lng)
                     => c = d
              /\ \A c \in 1..Len(clusters) : \A a, b \in 1..Len(clusters[c].birds) :
                     Get(clusters[c].birds[a], "comName") = Get(clusters[c].birds[b], "comName")
                     => a = b
              /\ { << clusters[c].lat, clusters[c].lng >> : c \in 1..Len(clusters) }
                     = { LocationOf(data[n]) :
                           n \in { k \in 1..Len(data) : IsValidObservation(data[k]) } }
      ]_vars

\* C16 witness: two clusters are published, one of them with two species.
C16_Witness ==
    /\ published
    /\ Len(birdSightings) = 2
    /\ \E c \in 1..2 : Len(birdSightings[c].birds) = 2

\* C17 (as claimed): the submission identifiers of every published
\* SpeciesRecord are pairwise distinct.
C17_SubIdsPairwiseDistinct ==
    \A c \in 1..Len(birdSightings) : \A b \in 1..Len(birdSightings[c].birds) :
        LET subIds == birdSightings[c].birds[b].subIds IN
        \A s, t \in 1..Len(subIds) : subIds[s] = subIds[t] => s = t

\* the largest of a non-empty sequence of numbers
Latest(times) == CHOOSE t \in { times[k] : k \in 1..Len(times) } :
                    \A k \in 1..Len(times) : times[k] <= t

\* C18 (as claimed): the obsDt of every published SpeciesRecord is the most
\* recent obsDt of the records merged into it, whatever their order in the
\* response.
C18_ObsDtIsTheMostRecent ==
    [][ published' =>
          LET data == PublishedData IN
          \A c \in 1..Len(birdSightings') : \A b \in 1..Len(birdSightings'[c].birds) :
              LET cluster == birdSightings'[c]
                  bird    == cluster.birds[b]
                  merged  == MergedObservations(data, << cluster.lat, cluster.lng >>,
                                                Get(bird, "comName"))
              IN  bird.obsDt = Latest([ k \in 1..Len(merged) |-> merged[k].obsDt ])
      ]_vars

\* the fields the grouping and the merge read
RequiredFields == {"lat", "lng", "comName", "subId"}

\* data without its records that have obsValid true and lack a required field
WithoutMalformed(data) ==
    SelectSeq(data, LAMBDA o : ~IsValidObservation(o) \/ RequiredFields \subseteq DOMAIN o)

\* C19 (as claimed): a record with obsValid true that lacks lat, lng, comName
\* or subId is skipped: what a step publishes is what the response without
\* these records yields, with or without the photos of the lookup.
C19_MalformedRecordIsSkipped ==
    [][ published' =>
          LET kept == ValidSightings(WithoutMalformed(PublishedData)) IN
          \/ birdSightings' = ProcessedSightings(kept, NoPhotos)
          \/ birdSightings' = ProcessedSightings(kept, RobinPhotos)
      ]_vars

\* C20: in BirdMap.jsx, when the primary response is an empty array, the
\* cycle publishes an empty cluster list, records the center and the
\* parameters of its query and raises no alert, however the lookup ends.
C20_EmptyResponsePublishesNothing ==
    [][ \A i \in 1..Len(cycles) :
          ( /\ cycles[i].pc = "lookup"
            /\ cycles[i].data = << >>
            /\ cycles' = RemoveAt(cycles, i) )
          => /\ published'
             /\ birdSightings' = << >>
             /\ lastFetchLocation' = [lat |-> cycles[i].lat, lng |-> cycles[i].lng]
             /\ lastFetchParams' = [daysBack |-> cycles[i].back, sightingType |-> cycles[i].type]
             /\ alert' = NoAlert
             /\ ~loading' ]_vars

\* C20 witness: a cycle for a center away from the initial one has just
\* published the empty list, after a lookup that threw.
C20_Witness ==
    /\ published
    /\ birdSightings = << >>
    /\ console = PhotoErrorLog
    /\ alert = NoAlert
    /\ lastFetchLocation = [lat |-> ToFixed4(mapCenter.lat), lng |-> ToFixed4(mapCenter.lng)]
    /\ lastFetchLocation # InitialCenter

\* the ways a primary request fails
FailedPrimaryOutcomes ==
    { [kind |-> k, body |-> << >>] : k \in {"reject", "notOk", "badJson", "nonArray"} }

\* in a step: the activations in seq issue their lookup after the primary
\* response and once only.  A new activation awaits its primary response; an
\* activation that awaits its lookup response issues nothing more.
LookupFollowsPrimary(seq, seqAfter) ==
    /\ Len(seqAfter) > Len(seq) => seqAfter[Len(seqAfter)].pc = "primary"
    /\ Len(seqAfter) = Len(seq) =>
          \A i \in 1..Len(seq) :
              /\ seq[i].pc = "lookup" => seqAfter[i] = seq[i]
              /\ (seq[i].pc = "primary" /\ seqAfter[i].pc = "lookup") =>
                    /\ ~FilterThrows(seqAfter[i].data)
                    /\ seqAfter[i] = [seq[i] EXCEPT !.pc = "lookup",
                                                     !.data = seqAfter[i].data,
                                                     !.species = seqAfter[i].species]

\* C21: in BirdMap.jsx and in part_000 the lookup of a cycle is issued by the
\* step that receives a parsed primary response, an activation that awaits
\* its lookup issues no other request, and a primary request that fails ends
\* the cycle without a lookup.
C21_LookupOnlyAfterPrimarySucceeded ==
    [][ /\ LookupFollowsPrimary(cycles, cycles')
        /\ LookupFollowsPrimary(activations, activations')
        /\ \A outcome \in FailedPrimaryOutcomes :
              /\ \A i \in 1..Len(cycles) :
                     PrimaryResponse(i, outcome) => cycles' = RemoveAt(cycles, i)
              /\ \A i \in 1..Len(activations) :
                     VariantPrimaryResponse(i, outcome) => activations' = RemoveAt(activations, i)
      ]_vars

\* C21 witness: an activation of part_000 has received two valid records and
\* awaits the response of its lookup for their species.
C21_Witness ==
    \E i \in 1..Len(activations) :
        /\ activations[i].pc = "lookup"
        /\ activations[i].data = << RobinFirst, WrenElsewhere >>
        /\ activations[i].species = << "Turdus_Robin", "Troglodytes_Wren" >>

\* C22: when every issued network call eventually resolves or rejects, a
\* loading flag that is set is eventually cleared, whatever the outcomes of
\* the two calls.
C22_LoadingIsEventuallyCleared == loading ~> ~loading

\* C22 witness: a cycle has ended in the catch block after its lookup
\* returned, and the loading flag is clear.
C22_Witness ==
    /\ ~loading
    /\ cycles = << >>
    /\ alert = FetchErrorAlert
    /\ console = DataErrorLog("TypeError: Cannot read properties of undefined")

\* a step in which an activation of fetchBirdData of part_000 completes
\* successfully: its clusters are published
VariantCycleSucceeds ==
    /\ published'
    /\ \E i \in 1..Len(activations) : \E outcome \in LookupOutcomes :
          VariantLookupResponse(i, outcome)

\* C23: in part_000 the last-queried position is created or overwritten only
\* by a step in which a fetch completes successfully, so that a cycle whose
\* primary query fails leaves it as it was before the cycle started
C23_PositionRecordedOnlyOnSuccess ==
    [][lastQueriedPosition' # lastQueriedPosition => VariantCycleSucceeds]_vars

\* in a step that publishes: the species list of the lookup request of the
\* activation that publishes
PublishedSpecies ==
    IF \E i \in 1..Len(cycles) : cycles[i].pc = "lookup" /\ cycles' = RemoveAt(cycles, i)
    THEN cycles[CHOOSE i \in 1..Len(cycles) :
                    cycles[i].pc = "lookup" /\ cycles' = RemoveAt(cycles, i)].species
    ELSE activations[CHOOSE i \in 1..Len(activations) :
                    activations[i].pc = "lookup" /\ activations' = RemoveAt(activations, i)].species

\* the '<sciName>_<comName>' keys of the SpeciesRecords of clusters
RecordKeys(clusters) ==
    UNION { { SpeciesKey(clusters[c].birds[b]) : b \in 1..Len(clusters[c].birds) } :
                c \in 1..Len(clusters) }

\* C24 (as claimed): the species list of the lookup request of a cycle is the
\* set of the keys of the SpeciesRecords the cycle publishes: no key is listed
\* twice, every key of a published record is listed, and every listed key is
\* the key of a published record.
C24_LookupListsTheKeysOfThePublishedRecords ==
    [][ published' =>
          LET species == PublishedSpecies IN
          /\ \A s, t \in 1..Len(species) : species[s] = species[t] => s = t
          /\ { species[k] : k \in 1..Len(species) } = RecordKeys(birdSightings')
      ]_vars

\* the '<sciName>_<comName>' keys of the records of data with obsValid true
ValidKeys(data) ==
    { SpeciesKey(data[n]) : n \in { m \in 1..Len(data) : IsValidObservation(data[m]) } }

\* C24 (amended): the species list of the lookup request of a cycle is the
\* set of the keys of the valid records of the response, no key listed twice,
\* and every key of a SpeciesRecord the cycle publishes is listed.
C24_LookupListsTheKeysOfTheValidRecords ==
    [][ published' =>
          LET species == PublishedSpecies IN
          /\ \A s, t \in 1..Len(species) : species[s] = species[t] => s = t
          /\ { species[k] : k \in 1..Len(species) } = ValidKeys(PublishedData)
          /\ RecordKeys(birdSightings') \subseteq ValidKeys(PublishedData)
      ]_vars

\* a cycle has published a Robin record under the scientific name of its
\* first record, with the record of the other scientific name merged into it
C24_Witness ==
    /\ published
    /\ \E c \in 1..Len(birdSightings) : \E b \in 1..Len(birdSightings[c].birds) :
          LET bird == birdSightings[c].birds[b] IN
          /\ SpeciesKey(bird) = "Turdus_Robin"
          /\ \E k \in 1..Len(bird.subIds) : bird.subIds[k] = Get(RobinOtherSciName, "subId")
          /\ Len(bird.subIds) >= 2

\* the lookup outcomes with status ok and a body that has a species map
OutcomesWithSpeciesMap ==
    { outcome \in LookupOutcomes :
          outcome.kind = "ok" /\ "species" \in DOMAIN outcome.body }

\* a step in which the lookup request of an activation of either component
\* ends with outcome
LookupEndsWith(outcome) ==
    \/ \E i \in 1..Len(cycles) : LookupResponse(i, outcome)
    \/ \E i \in 1..Len(activations) : VariantLookupResponse(i, outcome)

\* C25: when the lookup succeeds with a species map, a published SpeciesRecord
\* whose '<sciName>_<comName>' key is in the map carries the entry's
\* thumbnailUrl as thumbnailUrl and its imageUrl as fullPhotoUrl, and a
\* record whose key is not in the map has neither field.
C25_PhotoUrlsIffKeyInMap ==
    [][ \A outcome \in OutcomesWithSpeciesMap :
          LookupEndsWith(outcome) /\ published' =>
              \A c \in 1..Len(birdSightings') : \A b \in 1..Len(birdSightings'[c].birds) :
                  LET bird == birdSightings'[c].birds[b]
                      key  == SpeciesKey(bird)
                      map  == outcome.body.species
                  IN  IF key \in DOMAIN map
                      THEN /\ {"thumbnailUrl", "fullPhotoUrl"} \subseteq DOMAIN bird
                           /\ bird.thumbnailUrl = map[key].thumbnailUrl
                           /\ bird.fullPhotoUrl = map[key].imageUrl
                      ELSE {"thumbnailUrl", "fullPhotoUrl"} \cap DOMAIN bird = {}
      ]_vars

\* clusters are published in which a record has the photo URLs of the map and
\* another record has none
C25_Witness ==
    /\ published
    /\ \E c \in 1..Len(birdSightings) : \E b \in 1..Len(birdSightings[c].birds) :
          LET bird == birdSightings[c].birds[b] IN
          /\ "thumbnailUrl" \in DOMAIN bird
          /\ bird.thumbnailUrl = "robin-thumb"
          /\ bird.fullPhotoUrl = "robin-full"
    /\ \E c \in 1..Len(birdSightings) : \E b \in 1..Len(birdSightings[c].birds) :
          {"thumbnailUrl", "fullPhotoUrl"} \cap DOMAIN birdSightings[c].birds[b] = {}

\* the gate of a render with the primed center and parameters rejects: the
\* parameters are FetchState's and the center is less than 3 km from
\* FetchState's center
GateRejects ==
    /\ lastFetchParams # NULL
    /\ lastFetchLocation # NULL
    /\ daysBack' = lastFetchParams.daysBack
    /\ sightingType' = lastFetchParams.sightingType
    /\ Distance(lastFetchLocation, mapCenter') < MinMoveMetres

\* C26: a gate evaluation that rejects issues no request and leaves the
\* published clusters, lastFetchLocation, lastFetchParams and the loading
\* flag as they were.
C26_RejectedGateChangesNothing ==
    [][ ~loading /\ ChangeStep /\ GateRejects
        => /\ UNCHANGED <<cycles, birdSightings, lastFetchLocation, lastFetchParams, loading>>
           /\ alert' = NoAlert ]_vars

\* the gate has just rejected a center other than FetchState's, with clusters
\* published
C26_Witness ==
    /\ console = SkipLog
    /\ mapCenter # InitialCenter
    /\ birdSightings # << >>
    /\ lastFetchLocation = InitialCenter

\* a step in which the viewport settles less than 3 km from the center it
\* had, while idle with a FetchState whose parameters are the current ones
SmallMove ==
    /\ Idle
    /\ lastFetchParams # NULL
    /\ lastFetchLocation # NULL
    /\ daysBack = lastFetchParams.daysBack
    /\ sightingType = lastFetchParams.sightingType
    /\ \E center \in Centers : MoveEnd(center)
    /\ Distance(mapCenter, mapCenter') < MinMoveMetres

\* C27: the movement is measured from the center of the last successful
\* fetch, not from the previous viewport position: a settle less than 3 km
\* from the previous center starts a fetch for the new center if and only if
\* the new center is at least 3 km from FetchState's center, so that in a
\* sequence of such settles the first one that far starts a fetch and none
\* before it does.
C27_MovementIsMeasuredFromLastFetch ==
    [][ SmallMove =>
          ( (loading' /\ Len(cycles') = 1 /\ cycles'[1].mapCenter = mapCenter')
              <=> Distance(lastFetchLocation, mapCenter') >= MinMoveMetres ) ]_vars

\* C27 witness: with FetchState at the initial center the viewport has settled
\* on center 3, 1 km from it, and the gate has rejected; the settle on center
\* 2, 2 km further and 3 km from the initial center, starts a fetch.
C27_Witness ==
    /\ Idle
    /\ console = SkipLog
    /\ lastFetchLocation = InitialCenter
    /\ mapCenter = CenterList[3]
    /\ Distance(InitialCenter, CenterList[3]) < MinMoveMetres
    /\ Distance(CenterList[3], CenterList[2]) < MinMoveMetres
    /\ ENABLED (SmallMove /\ mapCenter' = CenterList[2] /\ loading')

\* C28: in part_000, after a viewport settle the update button is shown if
\* and only if there is no last-queried position or the settled center is at
\* least 10 km from it, and an activation of fetchBirdData starts only in the
\* mount or in a click on the shown button while the loading flag is clear.
C28_UpdateIsOfferedBeyond10Km ==
    [][ /\ (\E center \in VariantCenters : VariantMoveEnd(center))
             => ( showUpdateButton'
                    <=> \/ lastQueriedPosition = NULL
                        \/ Distance(lastQueriedPosition, mapCenter') >= UpdateButtonMetres )
        /\ Len(activations') > Len(activations)
             => \/ VariantMount
                \/ UpdateClick /\ showUpdateButton /\ ~loading
      ]_vars

\* C28 witness: the button shown after the settle on the far center was
\* used: a query for the far center is in flight and the button is hidden.
C28_Witness ==
    /\ Len(activations) = 1
    /\ activations[1].pc = "primary"
    /\ activations[1].mapCenter = FarCenter
    /\ loading
    /\ ~showUpdateButton
    /\ Distance(InitialCenter, FarCenter) >= UpdateButtonMetres

\* the gate approved the query of activation c when it was issued
Approved(c) ==
    \/ c.lastFetchParams = NULL
    \/ c.lastFetchLocation = NULL
    \/ c.lastFetchParams # [daysBack |-> c.back, sightingType |-> c.type]
    \/ Distance(c.lastFetchLocation, c.mapCenter) >= MinMoveMetres

\* C29: the loading flag is set exactly while a cycle is in flight: it is
\* clear at the start, it becomes set only in a step of the mount or of a
\* change that starts a cycle the gate approved, and it is cleared by the
\* steps in which an activation ends and by no other: the ones that publish
\* (success) and the ones that alert (failure).
C29_LoadingExactlyWhileInFlight ==
    /\ (loading <=> cycles # << >>)
    /\ [][ /\ (loading' <=> cycles' # << >>)
           /\ (~loading /\ loading')
                => /\ Mount \/ ChangeStep
                   /\ cycles = << >>
                   /\ Len(cycles') = 1
                   /\ cycles'[1].pc = "primary"
                   /\ Approved(cycles'[1])
           /\ (loading /\ ~loading') <=> Len(cycles') < Len(cycles)
           /\ Len(cycles') < Len(cycles) => published' \/ alert' = FetchErrorAlert
         ]_vars

\* C29 witness: the flag is still set after the primary response of a cycle
\* that the gate approved for a center 3 km or more from FetchState's center.
C29_Witness ==
    /\ loading
    /\ Len(cycles) = 1
    /\ cycles[1].pc = "lookup"
    /\ cycles[1].lastFetchLocation # NULL
    /\ cycles[1].lastFetchParams = [daysBack |-> cycles[1].back, sightingType |-> cycles[1].type]
    /\ Distance(cycles[1].lastFetchLocation, cycles[1].mapCenter) >= MinMoveMetres

\* a step in which activation i publishes and its center and parameters are
\* the recorded ones afterwards
RecordsFetchOf(i) ==
    /\ cycles[i].pc = "lookup"
    /\ cycles' = RemoveAt(cycles, i)
    /\ published'
    /\ lastFetchLocation' = [lat |-> cycles[i].lat, lng |-> cycles[i].lng]
    /\ lastFetchParams' = [daysBack |-> cycles[i].back, sightingType |-> cycles[i].type]

\* C30: lastFetchLocation and lastFetchParams are both absent or both
\* present in every reachable state, and they are of the same cycle: a step
\* that writes one of them is the publishing step of one activation and
\* leaves both with the center and the parameters of that activation's query.
C30_FetchStateIsWrittenAsAPair ==
    /\ lastFetchLocation = NULL /\ lastFetchParams = NULL
    /\ [][ /\ (lastFetchLocation' = NULL <=> lastFetchParams' = NULL)
           /\ (lastFetchLocation' # lastFetchLocation \/ lastFetchParams' # lastFetchParams)
                => \E i \in 1..Len(cycles) : RecordsFetchOf(i)
         ]_vars

\* C30 witness: a second cycle has published and replaced both the center and
\* the classification of the first.
C30_Witness ==
    /\ published
    /\ lastFetchLocation # NULL
    /\ lastFetchLocation # InitialCenter
    /\ lastFetchParams # NULL
    /\ lastFetchParams.sightingType # "recent"

====
